---- MODULE Spec2Model ----
(***************************************************************************)
(* File Storage API (FastAPI): role / visibility / department based access *)
(* control over stored files and user records.                            *)
(*                                                                         *)
(* State: the users and files tables, the upload directory, and the        *)
(* request being served with the response it produced.  The server takes   *)
(* one request at a time: a request is received (pc = "handling"), its     *)
(* handler runs as one action (pc = "responded"), the response is sent     *)
(* (pc = "idle").  The dependency functions (require_role_or_higher,       *)
(* can_access_file, can_delete_file) and the crud functions are operators. *)
(***************************************************************************)
EXTENDS Integers, FiniteSets, Sequences, TLC

VARIABLES users, files, disk, pc, req, resp

vars == <<users, files, disk, pc, req, resp>>

----------------------------------------------------------------------------
(* Bounds of the model *)

\* at most this many file rows (ids 1..MaxFiles)
MaxFiles == 1
\* downloads_count is counted up to this value
MaxDownloads == 1
\* at most this many user rows (ids 1..MaxUsers)
MaxUsers == 5

----------------------------------------------------------------------------
(* models.py *)

UserRole == {"USER", "MANAGER", "ADMIN"}

FileVisibility == {"PRIVATE", "DEPARTMENT", "PUBLIC"}

\* the two departments created at startup
Departments == {1, 2}

----------------------------------------------------------------------------
(* config.py *)

MAX_FILE_SIZE_USER == 10 * 1024 * 1024

MAX_FILE_SIZE_MANAGER == 50 * 1024 * 1024

MAX_FILE_SIZE_ADMIN == 100 * 1024 * 1024

ALLOWED_FILE_TYPES_USER == {".pdf"}

\* the attributes class Settings defines; reading any other attribute of
\* settings raises AttributeError
Settings ==
    {"SECRET_KEY", "ALGORITHM", "ACCESS_TOKEN_EXPIRE_MINUTES", "DATABASE_URL",
     "UPLOAD_DIR", "MAX_FILE_SIZE_USER", "MAX_FILE_SIZE_MANAGER",
     "MAX_FILE_SIZE_ADMIN", "ALLOWED_FILE_TYPES_USER"}

----------------------------------------------------------------------------
(* Responses: a returned body (200) or a raised HTTPException.  An         *)
(* exception that is no HTTPException (NameError, AttributeError) leaves   *)
(* the handler and the framework answers 500 Internal Server Error.        *)

HTTPException(status_code, detail) ==
    [status |-> status_code, detail |-> detail, body |-> {}]

Return(body) == [status |-> 200, detail |-> "", body |-> body]

UnhandledError(name) == [status |-> 500, detail |-> name, body |-> {}]

----------------------------------------------------------------------------
(* crud.py: queries *)

SetMax(S) == IF S = {} THEN 0 ELSE CHOOSE m \in S : \A x \in S : x <= m

\* .first() of a query on the primary key: the set holding the row, or {}
get_file_by_id(file_id) == {f \in files : f.id = file_id}

get_user_by_id(user_id) == {u \in users : u.id = user_id}

get_user_by_username(username) == {u \in users : u.username = username}

get_users_by_department(department_id) ==
    {u \in users : u.department_id = department_id}

get_all_users == users

\* mutant: the DEPARTMENT branch forgets the department
get_accessible_files_nodept(current_user) ==
    IF current_user.role \in {"ADMIN", "MANAGER"} THEN files
    ELSE {f \in files :
            \/ f.visibility = "PUBLIC"
            \/ f.visibility = "DEPARTMENT"
            \/ /\ f.visibility = "PRIVATE"
               /\ f.owner_id = current_user.id}

get_accessible_files(current_user) ==
    IF current_user.role = "ADMIN" THEN files
    ELSE IF current_user.role = "MANAGER" THEN files
    ELSE {f \in files :
            \/ f.visibility = "PUBLIC"
            \/ /\ f.visibility = "DEPARTMENT"
               /\ f.department_id = current_user.department_id
            \/ /\ f.visibility = "PRIVATE"
               /\ f.owner_id = current_user.id}

----------------------------------------------------------------------------
(* dependencies.py *)

role_hierarchy(role) ==
    CASE role = "USER" -> 1
      [] role = "MANAGER" -> 2
      [] role = "ADMIN" -> 3
      [] OTHER -> 0

\* mutant: the required role itself is not enough
require_role_higher(required_role, current_user) ==
    role_hierarchy(current_user.role) > role_hierarchy(required_role)

\* TRUE when the dependency lets the request through to the handler body
require_role_or_higher(required_role, current_user) ==
    ~(role_hierarchy(current_user.role) < role_hierarchy(required_role))

RoleFloorError == HTTPException(403, "Role MANAGER or higher required")

\* mutant: the branch for own PRIVATE files is missing
can_access_file_noprivate(file_id, current_user) ==
    LET file == get_file_by_id(file_id) IN
    IF file = {} THEN HTTPException(404, "File not found")
    ELSE LET f == CHOOSE x \in file : TRUE IN
         IF current_user.role \in {"ADMIN", "MANAGER"} THEN Return(file)
         ELSE IF f.visibility = "PUBLIC" THEN Return(file)
         ELSE IF /\ f.visibility = "DEPARTMENT"
                 /\ f.department_id = current_user.department_id
              THEN Return(file)
         ELSE HTTPException(403, "Access denied to this file")

\* mutant: a MANAGER is held to the own department, as for delete
can_access_file_dept(file_id, current_user) ==
    LET file == get_file_by_id(file_id) IN
    IF file = {} THEN HTTPException(404, "File not found")
    ELSE LET f == CHOOSE x \in file : TRUE IN
         IF current_user.role = "ADMIN" THEN Return(file)
         ELSE IF current_user.role = "MANAGER" THEN
              IF f.department_id = current_user.department_id
              THEN Return(file)
              ELSE HTTPException(403, "Access denied to this file")
         ELSE IF \/ f.visibility = "PUBLIC"
                 \/ /\ f.visibility = "DEPARTMENT"
                    /\ f.department_id = current_user.department_id
                 \/ /\ f.visibility = "PRIVATE"
                    /\ f.owner_id = current_user.id
              THEN Return(file)
         ELSE HTTPException(403, "Access denied to this file")

can_access_file(file_id, current_user) ==
    LET file == get_file_by_id(file_id) IN
    IF file = {} THEN HTTPException(404, "File not found")
    ELSE LET f == CHOOSE x \in file : TRUE IN
         IF current_user.role = "ADMIN" THEN Return(file)
         ELSE IF current_user.role = "MANAGER" THEN Return(file)
         ELSE IF current_user.role = "USER" THEN
              IF f.visibility = "PUBLIC" THEN Return(file)
              ELSE IF /\ f.visibility = "DEPARTMENT"
                      /\ f.department_id = current_user.department_id
                   THEN Return(file)
              ELSE IF /\ f.visibility = "PRIVATE"
                      /\ f.owner_id = current_user.id
                   THEN Return(file)
              ELSE HTTPException(403, "Access denied to this file")
         ELSE Return(file)

\* mutant: the role rules run before the file is looked for
can_delete_file_rolefirst(file_id, current_user) ==
    LET file == get_file_by_id(file_id) IN
    IF current_user.role = "ADMIN" THEN
         IF file = {} THEN HTTPException(404, "File not found")
         ELSE Return(file)
    ELSE IF current_user.role = "MANAGER" THEN
         IF \E f \in file : f.department_id = current_user.department_id
         THEN Return(file)
         ELSE HTTPException(403, "Can only delete files from your department")
    ELSE IF \E f \in file : f.owner_id = current_user.id
         THEN Return(file)
    ELSE HTTPException(403, "Can only delete your own files")

\* mutant: a MANAGER may delete any file, as for view
can_delete_file_any(file_id, current_user) ==
    LET file == get_file_by_id(file_id) IN
    IF file = {} THEN HTTPException(404, "File not found")
    ELSE LET f == CHOOSE x \in file : TRUE IN
         IF current_user.role \in {"ADMIN", "MANAGER"} THEN Return(file)
         ELSE IF f.owner_id = current_user.id THEN Return(file)
         ELSE HTTPException(403, "Can only delete your own files")

can_delete_file(file_id, current_user) ==
    LET file == get_file_by_id(file_id) IN
    IF file = {} THEN HTTPException(404, "File not found")
    ELSE LET f == CHOOSE x \in file : TRUE IN
         IF current_user.role = "ADMIN" THEN Return(file)
         ELSE IF current_user.role = "MANAGER" THEN
              IF f.department_id = current_user.department_id
              THEN Return(file)
              ELSE HTTPException(403, "Can only delete files from your department")
         ELSE IF current_user.role = "USER" THEN
              IF f.owner_id = current_user.id
              THEN Return(file)
              ELSE HTTPException(403, "Can only delete your own files")
         ELSE Return(file)

----------------------------------------------------------------------------
(* crud.py: writes.  Each returns the new value of the table.              *)

\* the id the store gives the next inserted row (SQLite rowid: largest + 1)
NextId(rows) == SetMax({r.id : r \in rows}) + 1

create_user(user) ==
    users \cup {[id |-> NextId(users), username |-> user.username,
                 role |-> user.role, department_id |-> user.department_id]}

update_user_role(user_id, new_role) ==
    {IF u.id = user_id THEN [u EXCEPT !.role = new_role] ELSE u : u \in users}

\* mutant: the two ids change places
create_file_swapped(visibility, owner_id, department_id, file_path) ==
    files \cup {[id |-> NextId(files), owner_id |-> department_id,
                 department_id |-> owner_id, visibility |-> visibility,
                 file_path |-> file_path, downloads_count |-> 0]}

create_file(visibility, owner_id, department_id, file_path) ==
    files \cup {[id |-> NextId(files), owner_id |-> owner_id,
                 department_id |-> department_id, visibility |-> visibility,
                 file_path |-> file_path, downloads_count |-> 0]}

delete_file(file_id) == {f \in files : f.id # file_id}

increment_download_count(file_id) ==
    {IF f.id = file_id
     THEN [f EXCEPT !.downloads_count = f.downloads_count + 1]
     ELSE f : f \in files}

----------------------------------------------------------------------------
(* The request cycle *)

NoRequest == [op |-> "none"]

NoResponse == [status |-> 0, detail |-> "", body |-> {}]

\* the handler of req has run: resp is its response
Responded(op) == pc = "responded" /\ req.op = op

Handling(op) == pc = "handling" /\ req.op = op

Answer(r) == resp' = r /\ pc' = "responded" /\ UNCHANGED req

----------------------------------------------------------------------------
(* routers/files.py *)

\* uploaded file names, as (root, extension): os.path.splitext's result
Filenames == {<<"report", ".pdf">>, <<"SCAN", ".PDF">>, <<"notes", ".txt">>}

\* declared sizes of an upload; 0 stands for a missing or zero file.size
Sizes == {0, MAX_FILE_SIZE_USER, MAX_FILE_SIZE_USER + 1, MAX_FILE_SIZE_ADMIN + 1}

\* file ids asked for: the stored ones and one past them
FileIds == {f.id : f \in files} \cup {NextId(files)}

splitext(filename) == filename

lower(s) == IF s = ".PDF" THEN ".pdf" ELSE s

\* the path uuid4 names: a name no stored file and no file on disk has
unique_filename == SetMax(disk \cup {f.file_path : f \in files}) + 1

\* the checks of upload_file, lines 34-73: the exception raised, or Return({})
\* when the upload goes on to be saved
\* mutant: the visibility rule runs first
upload_checks_visfirst(current_user, filename, size, visibility) ==
    LET max_size ==
            IF current_user.role = "MANAGER" THEN MAX_FILE_SIZE_MANAGER
            ELSE IF current_user.role = "ADMIN" THEN MAX_FILE_SIZE_ADMIN
            ELSE MAX_FILE_SIZE_USER
        file_extension == lower(splitext(filename)[2])
    IN
    IF current_user.role = "USER" /\ visibility # "PRIVATE"
    THEN HTTPException(403, "USER role can only create PRIVATE files")
    ELSE IF size # 0 /\ size > max_size
    THEN HTTPException(413, "File size exceeds maximum allowed size for your role")
    ELSE IF current_user.role = "USER"
              /\ file_extension \notin ALLOWED_FILE_TYPES_USER
    THEN HTTPException(400, "File type not allowed for USER role")
    ELSE IF current_user.role \in {"MANAGER", "ADMIN"}
    THEN UnhandledError("AttributeError")
    ELSE Return({})

\* mutant: only PUBLIC is kept from a USER
upload_checks_public(current_user, filename, size, visibility) ==
    LET max_size ==
            IF current_user.role = "MANAGER" THEN MAX_FILE_SIZE_MANAGER
            ELSE IF current_user.role = "ADMIN" THEN MAX_FILE_SIZE_ADMIN
            ELSE MAX_FILE_SIZE_USER
        file_extension == lower(splitext(filename)[2])
    IN
    IF size # 0 /\ size > max_size
    THEN HTTPException(413, "File size exceeds maximum allowed size for your role")
    ELSE IF current_user.role = "USER"
              /\ file_extension \notin ALLOWED_FILE_TYPES_USER
    THEN HTTPException(400, "File type not allowed for USER role")
    ELSE IF current_user.role \in {"MANAGER", "ADMIN"}
    THEN UnhandledError("AttributeError")
    ELSE IF current_user.role = "USER" /\ visibility = "PUBLIC"
    THEN HTTPException(403, "USER role can only create PRIVATE files")
    ELSE Return({})

upload_checks(current_user, filename, size, visibility) ==
    LET max_size ==
            IF current_user.role = "MANAGER" THEN MAX_FILE_SIZE_MANAGER
            ELSE IF current_user.role = "ADMIN" THEN MAX_FILE_SIZE_ADMIN
            ELSE MAX_FILE_SIZE_USER
        file_extension == lower(splitext(filename)[2])
    IN
    IF size # 0 /\ size > max_size
    THEN HTTPException(413, "File size exceeds maximum allowed size for your role")
    ELSE IF current_user.role = "USER"
              /\ file_extension \notin ALLOWED_FILE_TYPES_USER
    THEN HTTPException(400, "File type not allowed for USER role")
    ELSE IF current_user.role = "MANAGER"
              /\ "ALLOWED_FILE_TYPES_MANAGER" \notin Settings
    THEN UnhandledError("AttributeError")
    ELSE IF current_user.role = "ADMIN"
              /\ "ALLOWED_FILE_TYPES_ADMIN" \notin Settings
    THEN UnhandledError("AttributeError")
    ELSE IF current_user.role = "USER" /\ visibility # "PRIVATE"
    THEN HTTPException(403, "USER role can only create PRIVATE files")
    ELSE Return({})

upload_file ==
    /\ Handling("upload_file")
    /\ LET chk == upload_checks(req.current_user, req.filename, req.size,
                                req.visibility) IN
       IF chk.status # 200
       THEN /\ Answer(chk)
            /\ UNCHANGED <<files, disk>>
       ELSE /\ NextId(files) <= MaxFiles
            /\ disk' = disk \cup {unique_filename}
            /\ files' = create_file(req.visibility, req.current_user.id,
                                    req.current_user.department_id,
                                    unique_filename)
            /\ Answer(Return(files' \ files))
    /\ UNCHANGED users

get_file_info ==
    /\ Handling("get_file_info")
    /\ Answer(can_access_file(req.file_id, req.current_user))
    /\ UNCHANGED <<users, files, disk>>

\* mutant: the count goes up before the access check is looked at
download_file_always ==
    /\ Handling("download_file")
    /\ LET dep == can_access_file(req.file_id, req.current_user) IN
       /\ \A f \in get_file_by_id(req.file_id) :
             f.downloads_count < MaxDownloads
       /\ files' = increment_download_count(req.file_id)
       /\ Answer(dep)
    /\ UNCHANGED <<users, disk>>

download_file ==
    /\ Handling("download_file")
    /\ LET dep == can_access_file(req.file_id, req.current_user) IN
       IF dep.status # 200
       THEN /\ Answer(dep)
            /\ UNCHANGED files
       ELSE /\ \A f \in dep.body : f.downloads_count < MaxDownloads
            /\ files' = increment_download_count(req.file_id)
            /\ Answer(dep)
    /\ UNCHANGED <<users, disk>>

delete_file_endpoint ==
    /\ Handling("delete_file_endpoint")
    /\ LET dep == can_delete_file(req.file_id, req.current_user) IN
       IF dep.status # 200
       THEN /\ Answer(dep)
            /\ UNCHANGED <<files, disk>>
       ELSE /\ disk' = disk \ {f.file_path : f \in dep.body}
            /\ files' = delete_file(req.file_id)
            /\ Answer(Return({}))
    /\ UNCHANGED users

list_files ==
    /\ Handling("list_files")
    /\ Answer(Return(get_accessible_files(req.current_user)))
    /\ UNCHANGED <<users, files, disk>>

----------------------------------------------------------------------------
(* routers/users.py *)

\* the names crud gives this module (its import line); calling any other
\* crud function here raises NameError
users_imports ==
    {"create_user", "get_user_by_id", "get_users_by_department",
     "get_all_users", "update_user_role"}

\* usernames asked for in create requests: one the seed data holds, one new
Usernames == {"user1", "user5"}

\* user ids asked for: the stored ones and one past them
UserIds == {u.id : u \in users} \cup {NextId(users)}

\* the body of create_new_user, lines 29-44: the exception raised, or
\* Return({}) when the user goes on to be created
create_checks(current_user, user) ==
    IF "get_user_by_username" \notin users_imports
    THEN UnhandledError("NameError")
    ELSE IF get_user_by_username(user.username) # {}
    THEN HTTPException(400, "Username already exists")
    ELSE IF current_user.role = "MANAGER" /\ user.role # "USER"
    THEN HTTPException(403, "MANAGER role can only create USER role users")
    ELSE Return({})

create_new_user ==
    /\ Handling("create_new_user")
    /\ IF ~require_role_or_higher("MANAGER", req.current_user)
       THEN /\ Answer(RoleFloorError)
            /\ UNCHANGED users
       ELSE LET chk == create_checks(req.current_user, req.user) IN
            IF chk.status # 200
            THEN /\ Answer(chk)
                 /\ UNCHANGED users
            ELSE /\ NextId(users) <= MaxUsers
                 /\ users' = create_user(req.user)
                 /\ Answer(Return(users' \ users))
    /\ UNCHANGED <<files, disk>>

\* the body of get_user_info, lines 62-77
user_info(current_user, user_id) ==
    LET user == get_user_by_id(user_id) IN
    IF user = {} THEN HTTPException(404, "User not found")
    ELSE IF /\ current_user.role = "MANAGER"
            /\ \E u \in user : u.department_id # current_user.department_id
    THEN HTTPException(403, "Can only view users from your department")
    ELSE Return(user)

get_user_info ==
    /\ Handling("get_user_info")
    /\ Answer(IF ~require_role_or_higher("MANAGER", req.current_user)
              THEN RoleFloorError
              ELSE user_info(req.current_user, req.user_id))
    /\ UNCHANGED <<users, files, disk>>

\* mutant: a MANAGER may give any role up to its own
role_checks_ownrank(current_user, user_id, new_role) ==
    LET user == get_user_by_id(user_id) IN
    IF user = {} THEN HTTPException(404, "User not found")
    ELSE IF /\ current_user.role = "MANAGER"
            /\ \E u \in user : u.department_id # current_user.department_id
    THEN HTTPException(403, "Can only update users from your department")
    ELSE IF current_user.role = "MANAGER" /\ new_role = "ADMIN"
    THEN HTTPException(403, "MANAGER role can only change users to USER role")
    ELSE Return({})

\* mutant: no ceiling on the role a MANAGER gives
role_checks_noceiling(current_user, user_id, new_role) ==
    LET user == get_user_by_id(user_id) IN
    IF user = {} THEN HTTPException(404, "User not found")
    ELSE IF /\ current_user.role = "MANAGER"
            /\ \E u \in user : u.department_id # current_user.department_id
    THEN HTTPException(403, "Can only update users from your department")
    ELSE Return({})

\* the checks of update_user_role_endpoint, lines 94-113
role_checks(current_user, user_id, new_role) ==
    LET user == get_user_by_id(user_id) IN
    IF user = {} THEN HTTPException(404, "User not found")
    ELSE IF /\ current_user.role = "MANAGER"
            /\ \E u \in user : u.department_id # current_user.department_id
    THEN HTTPException(403, "Can only update users from your department")
    ELSE IF current_user.role = "MANAGER" /\ new_role # "USER"
    THEN HTTPException(403, "MANAGER role can only change users to USER role")
    ELSE Return({})

update_user_role_endpoint ==
    /\ Handling("update_user_role_endpoint")
    /\ IF ~require_role_or_higher("MANAGER", req.current_user)
       THEN /\ Answer(RoleFloorError)
            /\ UNCHANGED users
       ELSE LET chk == role_checks(req.current_user, req.user_id, req.new_role) IN
            IF chk.status # 200
            THEN /\ Answer(chk)
                 /\ UNCHANGED users
            ELSE /\ users' = update_user_role(req.user_id, req.new_role)
                 /\ Answer(Return({u \in users' : u.id = req.user_id}))
    /\ UNCHANGED <<files, disk>>

\* mutant: a MANAGER is given every user
users_scope_all(current_user) == get_all_users

\* the body of list_users, lines 135-141
users_scope(current_user) ==
    IF current_user.role = "ADMIN" THEN get_all_users
    ELSE get_users_by_department(current_user.department_id)

list_users ==
    /\ Handling("list_users")
    /\ Answer(IF ~require_role_or_higher("MANAGER", req.current_user)
              THEN RoleFloorError
              ELSE Return(users_scope(req.current_user)))
    /\ UNCHANGED <<users, files, disk>>

----------------------------------------------------------------------------
(* Requests: the authenticated user is a stored user row *)

FileRequests ==
    {[op |-> "upload_file", current_user |-> u, filename |-> n, size |-> s,
      visibility |-> v] :
        u \in users, n \in Filenames, s \in Sizes, v \in FileVisibility}
    \cup {[op |-> o, current_user |-> u, file_id |-> i] :
            o \in {"get_file_info", "download_file", "delete_file_endpoint"},
            u \in users, i \in FileIds}
    \cup {[op |-> "list_files", current_user |-> u] : u \in users}

UserRequests ==
    {[op |-> "create_new_user", current_user |-> u,
      user |-> [username |-> n, role |-> r, department_id |-> d]] :
        u \in users, n \in Usernames, r \in UserRole, d \in Departments}
    \cup {[op |-> "get_user_info", current_user |-> u, user_id |-> i] :
            u \in users, i \in UserIds}
    \cup {[op |-> "update_user_role_endpoint", current_user |-> u,
           user_id |-> i, new_role |-> r] :
            u \in users, i \in UserIds, r \in UserRole}
    \cup {[op |-> "list_users", current_user |-> u] : u \in users}

Receive(requests) ==
    /\ pc = "idle"
    /\ \E r \in requests : req' = r
    /\ pc' = "handling"
    /\ UNCHANGED <<users, files, disk, resp>>

ReceiveFileRequest == Receive(FileRequests)

ReceiveUserRequest == Receive(UserRequests)

Respond ==
    /\ pc = "responded"
    /\ pc' = "idle"
    /\ req' = NoRequest
    /\ resp' = NoResponse
    /\ UNCHANGED <<users, files, disk>>

----------------------------------------------------------------------------
(* main.py: the demo data startup_event creates in an empty database *)

demo_users ==
    {[id |-> 1, username |-> "user1", role |-> "USER", department_id |-> 1],
     [id |-> 2, username |-> "manager1", role |-> "MANAGER", department_id |-> 1],
     [id |-> 3, username |-> "admin1", role |-> "ADMIN", department_id |-> 1],
     [id |-> 4, username |-> "user2", role |-> "USER", department_id |-> 2]}

startup_event ==
    /\ users = demo_users
    /\ files = {}
    /\ disk = {}

Init ==
    /\ startup_event
    /\ pc = "idle"
    /\ req = NoRequest
    /\ resp = NoResponse

Next ==
    \/ ReceiveFileRequest
    \/ ReceiveUserRequest
    \/ upload_file
    \/ get_file_info
    \/ download_file
    \/ delete_file_endpoint
    \/ list_files
    \/ create_new_user
    \/ get_user_info
    \/ update_user_role_endpoint
    \/ list_users
    \/ Respond

Spec == Init /\ [][Next]_vars

----------------------------------------------------------------------------
(* The file handlers over a database that already holds files: startup     *)
(* finds the tables populated and leaves them as they are.                 *)

StoredFile(i) ==
    {[id |-> i, owner_id |-> o, department_id |-> d, visibility |-> v,
      file_path |-> i, downloads_count |-> 0] :
        o \in {u.id : u \in demo_users}, d \in Departments,
        v \in FileVisibility}

\* for each id, no row or one row
Stores ==
    LET Row(i) == {{}} \cup {{f} : f \in StoredFile(i)}
        AnyRow == UNION {Row(i) : i \in 1..MaxFiles}
    IN {UNION {c[i] : i \in 1..MaxFiles} :
            c \in {c \in [1..MaxFiles -> AnyRow] :
                      \A i \in 1..MaxFiles : c[i] \in Row(i)}}

InitStore ==
    /\ users = demo_users
    /\ files \in Stores
    /\ disk = {f.file_path : f \in files}
    /\ pc = "idle"
    /\ req = NoRequest
    /\ resp = NoResponse

NextFiles ==
    \/ ReceiveFileRequest
    \/ upload_file
    \/ get_file_info
    \/ download_file
    \/ delete_file_endpoint
    \/ list_files
    \/ Respond

SpecStore == InitStore /\ [][NextFiles]_vars

----------------------------------------------------------------------------
(* Vocabulary of the properties: the decision a response carries.  The     *)
(* handlers answer 404 for NotFound and 403, told apart by the detail, for *)
(* the five Forbidden reasons; 200 is allow.                               *)

Reason(r) ==
    CASE r.status = 200 -> "Allow"
      [] r.status = 404 -> "NotFound"
      [] r.status = 403 /\ r.detail \in {"Access denied to this file",
                                         "USER role can only create PRIVATE files"}
            -> "Forbidden-Visibility"
      [] r.status = 403 /\ r.detail \in {"Can only delete files from your department",
                                         "Can only view users from your department",
                                         "Can only update users from your department"}
            -> "Forbidden-Department"
      [] r.status = 403 /\ r.detail = "Can only delete your own files"
            -> "Forbidden-Ownership"
      [] r.status = 403 /\ r.detail = "Role MANAGER or higher required"
            -> "Forbidden-RoleFloor"
      [] r.status = 403 /\ r.detail \in {"MANAGER role can only create USER role users",
                                         "MANAGER role can only change users to USER role"}
            -> "Forbidden-RoleCeiling"
      [] OTHER -> "Error"

Actor == req.current_user

FileOps == {"get_file_info", "download_file", "delete_file_endpoint"}

UserOps == {"create_new_user", "get_user_info", "update_user_role_endpoint",
            "list_users"}

----------------------------------------------------------------------------
\* C1: for every actor and every existing file, view and download give the
\* same decision: allow iff the actor is ADMIN, or MANAGER, or a USER and the
\* file is PUBLIC, or DEPARTMENT of the actor's department, or PRIVATE and
\* owned by the actor; every other case is Forbidden-Visibility (403).
ViewRule(a, f) ==
    \/ a.role = "ADMIN"
    \/ a.role = "MANAGER"
    \/ /\ a.role = "USER"
       /\ \/ f.visibility = "PUBLIC"
          \/ f.visibility = "DEPARTMENT" /\ f.department_id = a.department_id
          \/ f.visibility = "PRIVATE" /\ f.owner_id = a.id

C1_ViewDownload ==
    /\ pc = "idle" =>
          \A a \in users, f \in files :
             Reason(can_access_file(f.id, a)) =
                 IF ViewRule(a, f) THEN "Allow" ELSE "Forbidden-Visibility"
    /\ pc = "responded" /\ req.op \in {"get_file_info", "download_file"} =>
             \A f \in files :
                f.id = req.file_id =>
                   /\ Reason(resp) =
                         IF ViewRule(Actor, f) THEN "Allow"
                         ELSE "Forbidden-Visibility"
                   /\ Reason(resp) = "Forbidden-Visibility" => resp.status = 403

\* a USER was refused the download of a DEPARTMENT file of another department
C1_Witness ==
    /\ Responded("download_file")
    /\ Actor.role = "USER"
    /\ \E f \in files : /\ f.id = req.file_id
                        /\ f.visibility = "DEPARTMENT"
                        /\ f.department_id # Actor.department_id
    /\ Reason(resp) = "Forbidden-Visibility"

----------------------------------------------------------------------------
\* C2: delete is allowed iff the actor is ADMIN, or a MANAGER of the file's
\* department, or the USER who owns the file; a MANAGER of another
\* department gets Forbidden-Department and a USER who is not the owner
\* Forbidden-Ownership, whatever the visibility.  A MANAGER can be allowed
\* to view a file the same MANAGER may not delete.
DeleteRule(a, f) ==
    CASE a.role = "ADMIN" -> "Allow"
      [] a.role = "MANAGER" ->
            IF f.department_id = a.department_id THEN "Allow"
            ELSE "Forbidden-Department"
      [] a.role = "USER" ->
            IF f.owner_id = a.id THEN "Allow" ELSE "Forbidden-Ownership"

C2_Delete ==
    [][delete_file_endpoint =>
          \A f \in files :
             f.id = req.file_id =>
                /\ Reason(resp') = DeleteRule(Actor, f)
                /\ (f \notin files') <=> (DeleteRule(Actor, f) = "Allow")]_vars

\* a MANAGER was refused the delete of a file that the view check allows
C2_Witness ==
    /\ Responded("delete_file_endpoint")
    /\ Actor.role = "MANAGER"
    /\ Reason(resp) = "Forbidden-Department"
    /\ Reason(can_access_file(req.file_id, Actor)) = "Allow"

----------------------------------------------------------------------------
\* C3: for every actor the file listing is exactly the stored files the
\* single-file view check allows that actor.
Viewable(a) == {f \in files : can_access_file(f.id, a).status = 200}

C3_ListingIsViewable ==
    /\ pc = "idle" => \A a \in users : get_accessible_files(a) = Viewable(a)
    /\ Responded("list_files") => resp.body = Viewable(Actor)

\* a USER's listing left out a stored file
C3_Witness ==
    /\ Responded("list_files")
    /\ Actor.role = "USER"
    /\ files # {}
    /\ resp.body # files

----------------------------------------------------------------------------
\* C4 (as stated): an upload by a USER with visibility DEPARTMENT or PUBLIC
\* is denied with Forbidden-Visibility, and one with visibility PRIVATE is
\* allowed by the visibility rule.
C4_AsStated ==
    Responded("upload_file") /\ Actor.role = "USER" =>
       IF req.visibility \in {"DEPARTMENT", "PUBLIC"}
       THEN Reason(resp) = "Forbidden-Visibility"
       ELSE Reason(resp) # "Forbidden-Visibility"

\* C4 (amended): an upload by a USER with visibility DEPARTMENT or PUBLIC is
\* always denied, and with Forbidden-Visibility exactly when it passes the
\* size limit and the extension rule, which are checked first (413 for the
\* size, 400 for the extension); with visibility PRIVATE it is never denied
\* with Forbidden-Visibility and, passing both checks, it is stored PRIVATE.
C4_UserUploadVisibility ==
    Responded("upload_file") /\ Actor.role = "USER" =>
       LET sizeOk == req.size <= 10485760
           typeOk == req.filename[2] \in {".pdf", ".PDF"}
       IN /\ ~sizeOk => resp.status = 413
          /\ sizeOk /\ ~typeOk => resp.status = 400
          /\ req.visibility # "PRIVATE" =>
                /\ resp.status # 200
                /\ resp.body = {}
                /\ (sizeOk /\ typeOk) <=> Reason(resp) = "Forbidden-Visibility"
          /\ req.visibility = "PRIVATE" =>
                /\ Reason(resp) # "Forbidden-Visibility"
                /\ sizeOk /\ typeOk =>
                      /\ resp.status = 200
                      /\ resp.body # {}
                      /\ \A f \in resp.body :
                            f \in files /\ f.visibility = "PRIVATE"

\* a USER's PUBLIC upload was refused for its visibility
C4_Witness ==
    /\ Responded("upload_file")
    /\ Actor.role = "USER"
    /\ req.visibility = "PUBLIC"
    /\ Reason(resp) = "Forbidden-Visibility"

----------------------------------------------------------------------------
\* C5: an upload by a MANAGER or ADMIN (within the role's size limit) is
\* allowed for each of PRIVATE, DEPARTMENT and PUBLIC: a file record is
\* created and it stores the requested visibility.
C5_ManagerAdminUpload ==
    /\ Responded("upload_file")
    /\ Actor.role \in {"MANAGER", "ADMIN"}
    /\ req.size <= 52428800
    => /\ resp.status = 200
       /\ resp.body # {}
       /\ \A f \in resp.body : f \in files /\ f.visibility = req.visibility

----------------------------------------------------------------------------
\* C6: every user-management operation asked by a USER is denied with
\* Forbidden-RoleFloor, whether or not the target exists, whatever the
\* requested role and whether or not the username is taken; a MANAGER or
\* ADMIN is never denied by the floor (rank USER=1 < MANAGER=2 < ADMIN=3).
C6_RoleFloor ==
    /\ role_hierarchy("USER") = 1
    /\ role_hierarchy("MANAGER") = 2
    /\ role_hierarchy("ADMIN") = 3
    /\ pc = "responded" /\ req.op \in UserOps =>
          /\ Actor.role = "USER" <=> Reason(resp) = "Forbidden-RoleFloor"
          /\ Actor.role = "USER" => resp.status = 403 /\ resp.body = {}

\* a USER asked to change the role of a user that does not exist
C6_Witness ==
    /\ Responded("update_user_role_endpoint")
    /\ Actor.role = "USER"
    /\ get_user_by_id(req.user_id) = {}
    /\ Reason(resp) = "Forbidden-RoleFloor"

----------------------------------------------------------------------------
FileHandlers == get_file_info \/ download_file \/ delete_file_endpoint

UserRecordHandlers == get_user_info \/ update_user_role_endpoint

\* C7 (as stated): for view, download and delete of a file and for view and
\* change-role of a user, a missing target gives NotFound for every actor
\* role.
C7_AsStated ==
    [][/\ FileHandlers /\ get_file_by_id(req.file_id) = {}
          => Reason(resp') = "NotFound"
       /\ UserRecordHandlers /\ get_user_by_id(req.user_id) = {}
          => Reason(resp') = "NotFound"]_vars

\* C7 (amended): a missing file gives NotFound on view, download and delete
\* for every actor role, and nothing is changed; a missing user gives
\* NotFound on view and change-role for every actor that passes the role
\* floor (MANAGER, ADMIN), whatever the new role, while a USER actor gets
\* Forbidden-RoleFloor there as for an existing target.
C7_NotFoundFirst ==
    [][/\ FileHandlers /\ get_file_by_id(req.file_id) = {}
          => /\ Reason(resp') = "NotFound"
             /\ UNCHANGED <<users, files, disk>>
       /\ UserRecordHandlers /\ get_user_by_id(req.user_id) = {}
          => /\ Reason(resp') = IF Actor.role = "USER"
                                THEN "Forbidden-RoleFloor" ELSE "NotFound"
             /\ UNCHANGED <<users, files, disk>>]_vars

\* a USER, who owns no file, asked to delete a file that does not exist
C7_Witness ==
    /\ Responded("delete_file_endpoint")
    /\ Actor.role = "USER"
    /\ \A f \in files : f.owner_id # Actor.id
    /\ Reason(resp) = "NotFound"

----------------------------------------------------------------------------
\* C8: a role change asked by a MANAGER on an existing user is allowed iff
\* the target is of the MANAGER's department and the new role is USER; same
\* department and new role MANAGER or ADMIN is Forbidden-RoleCeiling; other
\* department and new role USER is Forbidden-Department; a denial leaves the
\* stored role as it was.  Asked by an ADMIN it is allowed for any target
\* and any new role, and the target's stored role is then the new role.
C8_ChangeRole ==
    [][update_user_role_endpoint =>
          \A t \in users :
             t.id = req.user_id =>
                LET same == t.department_id = Actor.department_id
                    after == {u \in users' : u.id = t.id}
                IN /\ Actor.role = "MANAGER" =>
                        /\ Reason(resp') = "Allow"
                              <=> (same /\ req.new_role = "USER")
                        /\ same /\ req.new_role \in {"MANAGER", "ADMIN"}
                              => Reason(resp') = "Forbidden-RoleCeiling"
                        /\ ~same /\ req.new_role = "USER"
                              => Reason(resp') = "Forbidden-Department"
                   /\ Actor.role = "ADMIN" => Reason(resp') = "Allow"
                   /\ Reason(resp') # "Allow" => users' = users
                   /\ Reason(resp') = "Allow" =>
                        /\ after = {[t EXCEPT !.role = req.new_role]}
                        /\ users' \ after = users \ {t}]_vars

\* a MANAGER was refused the promotion of a user of the own department
C8_Witness ==
    /\ Responded("update_user_role_endpoint")
    /\ Actor.role = "MANAGER"
    /\ \E t \in users : /\ t.id = req.user_id
                        /\ t.department_id = Actor.department_id
    /\ req.new_role \in {"MANAGER", "ADMIN"}
    /\ Reason(resp) = "Forbidden-RoleCeiling"

----------------------------------------------------------------------------
\* C9: creating a user under a username that is not taken: an ADMIN is
\* allowed for every role and the user is created with that role; a MANAGER
\* is allowed iff the role is USER, else Forbidden-RoleCeiling and no user
\* is created.  A taken username is its own error (400), found before the
\* role rule, and creates nothing.
C9_CreateUser ==
    [][create_new_user /\ Actor.role \in {"MANAGER", "ADMIN"} =>
          IF get_user_by_username(req.user.username) # {}
          THEN resp'.status = 400 /\ users' = users
          ELSE IF Actor.role = "MANAGER" /\ req.user.role # "USER"
          THEN Reason(resp') = "Forbidden-RoleCeiling" /\ users' = users
          ELSE /\ Reason(resp') = "Allow"
               /\ \E u \in users' \ users :
                     /\ u.username = req.user.username
                     /\ u.role = req.user.role]_vars

----------------------------------------------------------------------------
\* C10: the user listing of an ADMIN is all stored users, that of a MANAGER
\* the stored users of the MANAGER's department; it is the set of users the
\* single-user view check allows that actor (a MANAGER is refused the others
\* with Forbidden-Department).
C10_UserListing ==
    /\ Responded("list_users") /\ Actor.role = "ADMIN" => resp.body = users
    /\ Responded("list_users") /\ Actor.role = "MANAGER" =>
          resp.body = {u \in users : u.department_id = Actor.department_id}
    /\ pc = "idle" =>
          \A a \in users :
             a.role \in {"MANAGER", "ADMIN"} =>
                /\ users_scope(a) =
                      {u \in users : Reason(user_info(a, u.id)) = "Allow"}
                /\ \A u \in users \ users_scope(a) :
                      Reason(user_info(a, u.id)) = "Forbidden-Department"
    /\ Responded("get_user_info") =>
          \A t \in users :
             t.id = req.user_id =>
                /\ Actor.role = "ADMIN" => Reason(resp) = "Allow"
                /\ Actor.role = "MANAGER" =>
                      Reason(resp) =
                         IF t.department_id = Actor.department_id
                         THEN "Allow" ELSE "Forbidden-Department"

\* a MANAGER's listing held some of the stored users and not all
C10_Witness ==
    /\ Responded("list_users")
    /\ Actor.role = "MANAGER"
    /\ resp.body # {}
    /\ resp.body # users

----------------------------------------------------------------------------
----------------------------------------------------------------------------
----------------------------------------------------------------------------
\* C13: upload_file checks the size limit of the actor's role, then the
\* extension rule of the role, then the visibility rule, all before bytes
\* are written or a record is created: an upload that fails several of them
\* is answered for the first one, and an upload that is not accepted leaves
\* the file records and the upload directory as they were.
C13_UploadChecksFirst ==
    [][upload_file =>
          LET limit == CASE Actor.role = "USER" -> 10485760
                         [] Actor.role = "MANAGER" -> 52428800
                         [] Actor.role = "ADMIN" -> 104857600
              sizeBad == req.size > limit
              extBad == /\ Actor.role = "USER"
                        /\ req.filename[2] \notin {".pdf", ".PDF"}
              visBad == Actor.role = "USER" /\ req.visibility # "PRIVATE"
          IN /\ sizeBad => resp'.status = 413
             /\ ~sizeBad /\ extBad => resp'.status = 400
             /\ ~sizeBad /\ ~extBad /\ visBad
                   => Reason(resp') = "Forbidden-Visibility"
             /\ resp'.status # 200 => UNCHANGED <<files, disk>>
             /\ resp'.status = 200 =>
                   /\ ~sizeBad /\ ~extBad /\ ~visBad
                   /\ Cardinality(files' \ files) = 1
                   /\ files \subseteq files'
                   /\ Cardinality(disk' \ disk) = 1
                   /\ disk \subseteq disk']_vars

\* an upload that fails all three checks was answered for its size, and the
\* store holds a file
C13_Witness ==
    /\ Responded("upload_file")
    /\ Actor.role = "USER"
    /\ req.size > 10485760
    /\ req.filename[2] = ".txt"
    /\ req.visibility = "PUBLIC"
    /\ resp.status = 413
    /\ files # {}

----------------------------------------------------------------------------
\* C14: no create-user or change-role request of a MANAGER raises a role:
\* after it every new user has role USER and every user that was stored has
\* a rank no higher than before.  So a user comes to hold MANAGER or ADMIN
\* only through a request of an ADMIN.
Rank(role) == IF role = "USER" THEN 1 ELSE IF role = "MANAGER" THEN 2 ELSE 3

Elevated(rows) == {u.id : u \in {r \in rows : r.role \in {"MANAGER", "ADMIN"}}}

C14_ManagerNeverRaises ==
    [][/\ (create_new_user \/ update_user_role_endpoint)
          /\ Actor.role = "MANAGER"
          => /\ \A u \in users, v \in users' :
                   u.id = v.id => Rank(v.role) <= Rank(u.role)
             /\ \A v \in users' :
                   (\A u \in users : u.id # v.id) => v.role = "USER"
       /\ ~(Elevated(users') \subseteq Elevated(users))
          => /\ create_new_user \/ update_user_role_endpoint
             /\ Actor.role = "ADMIN"]_vars

\* a MANAGER gave role USER to another user of its department
C14_Witness ==
    /\ Responded("update_user_role_endpoint")
    /\ Actor.role = "MANAGER"
    /\ Reason(resp) = "Allow"
    /\ req.user_id # Actor.id
    /\ \A u \in users : u.id = req.user_id => u.role = "USER"

----------------------------------------------------------------------------
\* C15: in every state reached through the handlers, for every actor and
\* stored file, if the delete check allows then the view check allows; and
\* every stored file has the department_id of its owner, which is what lets
\* an owner with role USER view an own file of any visibility.
C15_DeleteImpliesView ==
    pc = "idle" =>
       /\ \A a \in users, f \in files :
             Reason(can_delete_file(f.id, a)) = "Allow"
                => Reason(can_access_file(f.id, a)) = "Allow"
       /\ \A f \in files :
             \E o \in users :
                o.id = f.owner_id /\ o.department_id = f.department_id

\* a user that the seed made MANAGER or ADMIN is now a USER and owns a
\* stored file, which it may delete and view
C15_Witness ==
    /\ pc = "idle"
    /\ \E a \in users, f \in files :
          /\ a.id \in {2, 3}
          /\ a.role = "USER"
          /\ f.owner_id = a.id
          /\ Reason(can_delete_file(f.id, a)) = "Allow"
          /\ Reason(can_access_file(f.id, a)) = "Allow"

====
